---- MODULE Spec2Model ----
(***************************************************************************)
(* Federated-learning aggregation service (ml_be/main.py, aggregator.py).  *)
(*                                                                         *)
(* A model file is an ordered sequence of weight tensors.  A tensor is a   *)
(* sequence of numbers; its shape is its length.  Numbers are exact        *)
(* non-negative fractions <<n, d>>, so that a mean is the sum divided by   *)
(* the count and nothing else (floating-point rounding is not modelled).   *)
(***************************************************************************)
EXTENDS Integers, Sequences, FiniteSets, TLC

VARIABLES
    dirs,        \* the directories that exist
    fs,          \* path -> content of the file at that path
    fs_ops,      \* number of changes made to the file tree from outside
    requests,    \* POST /aggregate requests handled so far, with the answer
    tasks,       \* one background task per accepted request
    call         \* a direct call of aggregate_models and what it returned

vars == <<dirs, fs, fs_ops, requests, tasks, call>>

-----------------------------------------------------------------------------
(* Bounds *)

MaxRequests == 2
MaxFsOps == 1

-----------------------------------------------------------------------------
(* Numbers and tensors *)

Num(n) ==
    <<n, 1>>

Add(x, y) ==
    <<x[1] * y[2] + y[1] * x[2], x[2] * y[2]>>

DivBy(x, n) ==
    <<x[1], x[2] * n>>

\* Two fractions are the same number.
SameNumber(x, y) ==
    x[1] * y[2] = y[1] * x[2]

Shape(tensor) ==
    Len(tensor)

Shapes(weights) ==
    [i \in 1..Len(weights) |-> Shape(weights[i])]

-----------------------------------------------------------------------------
(* Files *)

OUTPUT_DIR == "aggregated_models"

MODELS_DIR == "models"

GHOST_DIR == "ghost"

DirNames == {MODELS_DIR, OUTPUT_DIR, GHOST_DIR}

CWD == "/srv"

RoundIds == {"r1", "r2"}

CALLBACK_URL == "http://ts/cb"

H5(stem) ==
    [stem |-> stem, ext |-> "h5"]

OutputName(round_id) ==
    H5(<<"global_model", round_id>>)

InputNames == {H5(<<"m1">>), H5(<<"m2">>), H5(<<"m3">>)}

OtherNames == {[stem |-> <<"notes">>, ext |-> "txt"]}

Names == InputNames \cup OtherNames \cup {OutputName(r) : r \in RoundIds}

Join(dir, name) ==
    <<dir, name>>

Abspath(path) ==
    <<CWD>> \o path

Paths == {Join(d, n) : d \in {MODELS_DIR, OUTPUT_DIR}, n \in Names}

NoFile == [kind |-> "absent", weights |-> <<>>]

Corrupt == [kind |-> "corrupt", weights |-> <<>>]

None == [kind |-> "none", weights |-> <<>>]

Model(weights) ==
    [kind |-> "model", weights |-> weights]

W1 == << <<Num(1)>> >>

W2 == << <<Num(2)>> >>

W3 == << <<Num(3)>> >>

WLong == << <<Num(3)>>, <<Num(5)>> >>

WWide == << <<Num(1), Num(4)>> >>

Exists(fsys, path) ==
    path \in DOMAIN fsys /\ fsys[path].kind # "absent"

EndsWithH5(name) ==
    name.ext = "h5"

-----------------------------------------------------------------------------
(* aggregator.py *)

\* keras.models.load_model: raises on a missing file and on a file that does
\* not parse; otherwise the model stored in the file.
LoadRaises(fsys, path) ==
    ~Exists(fsys, path) \/ fsys[path].kind = "corrupt"

\* Lines 49-56: the loading loop.  A path that does not exist is skipped; a
\* load that raises ends the loop with the exception.
LoadAll(fsys, paths) ==
    LET found == SelectSeq(paths, LAMBDA p : Exists(fsys, p)) IN
    IF \E k \in 1..Len(found) : LoadRaises(fsys, found[k])
    THEN [raised |-> TRUE, weights |-> <<>>]
    ELSE [raised |-> FALSE, weights |-> [k \in 1..Len(found) |-> fsys[found[k]].weights]]

Min(S) ==
    CHOOSE x \in S : \A y \in S : x <= y

\* zip(*all_models_weights): as many tuples as the shortest weight list has.
ZipLen(all_models_weights) ==
    Min({Len(all_models_weights[k]) : k \in 1..Len(all_models_weights)})

\* np.array(weights_list_tuple) raises when the tensors differ in shape.
ArrayRaises(all_models_weights, i) ==
    \E k \in 1..Len(all_models_weights) :
        Shape(all_models_weights[k][i]) # Shape(all_models_weights[1][i])

RECURSIVE SumAt(_, _, _, _)
SumAt(all_models_weights, i, j, k) ==
    IF k = 0 THEN Num(0)
    ELSE Add(SumAt(all_models_weights, i, j, k - 1), all_models_weights[k][i][j])

\* np.mean(np.array(weights_list_tuple), axis=0)
LayerMean(all_models_weights, i) ==
    [j \in 1..Shape(all_models_weights[1][i]) |->
        DivBy(SumAt(all_models_weights, i, j, Len(all_models_weights)),
              Len(all_models_weights))]

\* Lines 63-68.
AverageRaises(all_models_weights) ==
    \E i \in 1..ZipLen(all_models_weights) : ArrayRaises(all_models_weights, i)

AverageWeights(all_models_weights) ==
    [i \in 1..ZipLen(all_models_weights) |-> LayerMean(all_models_weights, i)]

\* keras Model.set_weights: the list must have one tensor per weight of the
\* model, each of the shape of that weight.
SetWeightsRaises(template, avg_weights) ==
    Shapes(avg_weights) # Shapes(template.weights)

\* Lines 43-84.  The result and, for the claims, what the loading loop held.
aggregate_models(fsys, model_paths) ==
    IF model_paths = <<>> THEN [model |-> None, loaded |-> <<>>, step |-> "no_paths"]
    ELSE LET l == LoadAll(fsys, model_paths)
             all_models_weights == l.weights
         IN  IF l.raised
             THEN [model |-> None, loaded |-> <<>>, step |-> "load"]
             ELSE IF all_models_weights = <<>>
             THEN [model |-> None, loaded |-> <<>>, step |-> "none_loaded"]
             ELSE IF AverageRaises(all_models_weights)
             THEN [model |-> None, loaded |-> all_models_weights, step |-> "average"]
             ELSE IF LoadRaises(fsys, model_paths[1])
             THEN [model |-> None, loaded |-> all_models_weights, step |-> "template"]
             ELSE IF SetWeightsRaises(fsys[model_paths[1]],
                                      AverageWeights(all_models_weights))
             THEN [model |-> None, loaded |-> all_models_weights, step |-> "set_weights"]
             ELSE [model |-> Model(AverageWeights(all_models_weights)),
                   loaded |-> all_models_weights, step |-> "ok"]

-----------------------------------------------------------------------------
(* main.py: the background task *)

Perms(S) ==
    {p \in [1..Cardinality(S) -> S] : \A i, j \in 1..Cardinality(S) : p[i] = p[j] => i = j}

\* os.listdir: the names in the directory, in arbitrary order.
Listings(fsys, dir) ==
    Perms({n \in Names : Exists(fsys, Join(dir, n))})

RECURSIVE SelectH5(_)
SelectH5(names) ==
    IF names = <<>> THEN <<>>
    ELSE IF EndsWithH5(Head(names)) THEN <<Head(names)>> \o SelectH5(Tail(names))
    ELSE SelectH5(Tail(names))

\* Line 49.
ModelPaths(dir, listing) ==
    LET h5 == SelectH5(listing) IN [i \in 1..Len(h5) |-> Join(dir, h5[i])]

MSG_NO_DIR == "[Errno 2] No such file or directory"

MSG_NO_FILES == "No model files (.h5) found in the specified directory."

MSG_AGG_FAILED == "Model aggregation failed. Check logs for details."

MSG_SAVE_FAILED == "Unable to create file"

PostOutcomes == {"2xx", "non_2xx", "connection_error", "timeout"}

\* requests.post raises RequestException for these; a response, whatever its
\* status code, is returned.
PostRaises(outcome) ==
    outcome \in {"connection_error", "timeout"}

NewTask(req, round_id, models_dir, callback_url) ==
    [req |-> req, round_id |-> round_id, models_dir |-> models_dir,
     callback_url |-> callback_url, pc |-> "queued",
     model_paths |-> <<>>, loaded |-> <<>>, agg_step |-> "",
     aggregated_model |-> None, saved |-> FALSE, aggregated_model_path |-> <<>>,
     callback_data |-> <<>>, response_status |-> "",
     posts |-> <<>>, post_result |-> "", cb_log |-> ""]

\* The pipeline's exception leaves the task: no status, no callback.
ExceptionEscapes(t, message) ==
    [t EXCEPT !.pc = "escaped"]

\* Lines 75-82: the handler of every exception of the pipeline.
OnException(t, message) ==
    [t EXCEPT !.callback_data = [roundId |-> t.round_id, status |-> "error",
                                 message |-> message],
              !.response_status = "error",
              !.pc = "callback"]

\* Lines 67-73.
OnSuccess(t, path) ==
    [t EXCEPT !.aggregated_model_path = path,
              !.saved = TRUE,
              !.callback_data = [roundId |-> t.round_id, status |-> "success",
                                 aggregated_model_path |-> Abspath(path)],
              !.response_status = "success",
              !.pc = "callback"]

\* Line 45: the task starts running.
Start(i) ==
    /\ tasks[i].pc = "queued"
    /\ tasks' = [tasks EXCEPT ![i].pc = "listdir"]
    /\ UNCHANGED <<dirs, fs, fs_ops, requests, call>>

\* Lines 49-54.
ListDir(i) ==
    LET t == tasks[i] IN
    /\ t.pc = "listdir"
    /\ IF t.models_dir \notin dirs
       THEN tasks' = [tasks EXCEPT ![i] = OnException(t, MSG_NO_DIR)]
       ELSE \E listing \in Listings(fs, t.models_dir) :
              LET model_paths == ModelPaths(t.models_dir, listing) IN
              IF model_paths = <<>>
              THEN tasks' = [tasks EXCEPT ![i] = OnException(t, MSG_NO_FILES)]
              ELSE tasks' = [tasks EXCEPT ![i].model_paths = model_paths,
                                          ![i].pc = "aggregate"]
    /\ UNCHANGED <<dirs, fs, fs_ops, requests, call>>

\* The result of aggregate_models is saved without the check for None.
AfterAggregateUnchecked(t, r) ==
    [t EXCEPT !.loaded = r.loaded, !.agg_step = r.step,
              !.aggregated_model = r.model, !.pc = "save"]

\* Lines 57-59.
AfterAggregate(t, r) ==
    LET u == [t EXCEPT !.loaded = r.loaded, !.agg_step = r.step,
                       !.aggregated_model = r.model]
    IN  IF r.model = None THEN OnException(u, MSG_AGG_FAILED)
        ELSE [u EXCEPT !.pc = "save"]

\* The call is one step: every file is read as it is when the call is made.
Aggregate(i) ==
    /\ tasks[i].pc = "aggregate"
    /\ \E r \in {aggregate_models(fs, tasks[i].model_paths)} :
         tasks' = [tasks EXCEPT ![i] = AfterAggregate(tasks[i], r)]
    /\ UNCHANGED <<dirs, fs, fs_ops, requests, call>>

\* Lines 62-73: the save succeeds.
Save(i) ==
    LET t == tasks[i]
        path == Join(OUTPUT_DIR, OutputName(t.round_id))
    IN
    /\ t.pc = "save"
    /\ fs' = [fs EXCEPT ![path] = t.aggregated_model]
    /\ tasks' = [tasks EXCEPT ![i] = OnSuccess(t, path)]
    /\ UNCHANGED <<dirs, fs_ops, requests, call>>

\* Line 64 raises (an I/O error): the file is not created, or is left
\* incomplete.
SaveFails(i) ==
    LET t == tasks[i]
        path == Join(OUTPUT_DIR, OutputName(t.round_id))
    IN
    /\ t.pc = "save"
    /\ \E partial \in BOOLEAN :
         fs' = IF partial THEN [fs EXCEPT ![path] = Corrupt] ELSE fs
    /\ tasks' = [tasks EXCEPT ![i] = OnException(t, MSG_SAVE_FAILED)]
    /\ UNCHANGED <<dirs, fs_ops, requests, call>>

\* A request that raised is made a second time.
AfterPostRetry(t, outcome) ==
    LET post == [url |-> t.callback_url, json |-> t.callback_data] IN
    [t EXCEPT !.posts = IF PostRaises(outcome) THEN t.posts \o <<post, post>>
                        ELSE Append(t.posts, post),
              !.post_result = outcome,
              !.cb_log = IF PostRaises(outcome) THEN "failed" ELSE "sent",
              !.pc = "done"]

\* A callback that could not be delivered turns the round into a failed one.
AfterPostMarksFailed(t, outcome) ==
    [t EXCEPT !.posts = Append(t.posts, [url |-> t.callback_url,
                                         json |-> t.callback_data]),
              !.post_result = outcome,
              !.response_status = IF PostRaises(outcome) THEN "error"
                                  ELSE t.response_status,
              !.cb_log = IF PostRaises(outcome) THEN "failed" ELSE "sent",
              !.pc = "done"]

\* Lines 85-90.
AfterPost(t, outcome) ==
    [t EXCEPT !.posts = Append(t.posts, [url |-> t.callback_url,
                                         json |-> t.callback_data]),
              !.post_result = outcome,
              !.cb_log = IF PostRaises(outcome) THEN "failed" ELSE "sent",
              !.pc = "done"]

Callback(i) ==
    /\ tasks[i].pc = "callback"
    /\ \E outcome \in PostOutcomes :
         tasks' = [tasks EXCEPT ![i] = AfterPost(tasks[i], outcome)]
    /\ UNCHANGED <<dirs, fs, fs_ops, requests, call>>

-----------------------------------------------------------------------------
(* main.py: POST /aggregate *)

\* Line 103: os.path.isdir.
IsDir(dir) ==
    dir \in dirs

Answer(round_id, models_directory) ==
    IF IsDir(models_directory)
    THEN [roundId |-> round_id, models_directory |-> models_directory,
          code |-> 202, body_roundId |-> round_id,
          body_status |-> "Aggregation process started"]
    ELSE [roundId |-> round_id, models_directory |-> models_directory,
          code |-> 404, body_roundId |-> "", body_status |-> "Directory not found"]

\* The task is added whether or not the directory was found.
EnqueueAlways(accepted, round_id, models_directory, callback_url) ==
    Append(tasks, NewTask(Len(requests) + 1, round_id, models_directory,
                          callback_url))

\* A request whose roundId already has a task adds none.
EnqueueOncePerRound(accepted, round_id, models_directory, callback_url) ==
    IF accepted /\ \A i \in 1..Len(tasks) : tasks[i].round_id # round_id
    THEN Append(tasks, NewTask(Len(requests) + 1, round_id, models_directory,
                               callback_url))
    ELSE tasks

\* Lines 110-115.
Enqueue(accepted, round_id, models_directory, callback_url) ==
    IF accepted
    THEN Append(tasks, NewTask(Len(requests) + 1, round_id, models_directory,
                               callback_url))
    ELSE tasks

\* Lines 96-118.
aggregate_endpoint(round_id, models_directory, callback_url) ==
    /\ Len(requests) < MaxRequests
    /\ requests' = Append(requests, Answer(round_id, models_directory))
    /\ tasks' = Enqueue(IsDir(models_directory), round_id, models_directory, callback_url)
    /\ UNCHANGED <<dirs, fs, fs_ops, call>>

-----------------------------------------------------------------------------
(* The file tree changes from outside the service *)

RemoveFile(path) ==
    /\ fs_ops < MaxFsOps
    /\ path[1] = MODELS_DIR
    /\ Exists(fs, path)
    /\ fs' = [fs EXCEPT ![path] = NoFile]
    /\ fs_ops' = fs_ops + 1
    /\ UNCHANGED <<dirs, requests, tasks, call>>

RemoveDir(dir) ==
    /\ fs_ops < MaxFsOps
    /\ dir = MODELS_DIR
    /\ dir \in dirs
    /\ dirs' = dirs \ {dir}
    /\ fs' = [p \in Paths |-> IF p[1] = dir THEN NoFile ELSE fs[p]]
    /\ fs_ops' = fs_ops + 1
    /\ UNCHANGED <<requests, tasks, call>>

-----------------------------------------------------------------------------
(* The service *)

NoCall == [called |-> FALSE, model_paths |-> <<>>, model |-> None,
           loaded |-> <<>>, step |-> ""]

ServiceContents == {NoFile, Corrupt, Model(W1), Model(WLong)}

AllContents == {NoFile, Corrupt, Model(W1), Model(W2), Model(W3), Model(WLong),
                Model(WWide)}

Notes == Join(MODELS_DIR, [stem |-> <<"notes">>, ext |-> "txt"])

InputPath(stem) ==
    Join(MODELS_DIR, H5(<<stem>>))

Tree(c1, c2, c3) ==
    [p \in Paths |->
        IF p = InputPath("m1") THEN c1
        ELSE IF p = InputPath("m2") THEN c2
        ELSE IF p = InputPath("m3") THEN c3
        ELSE IF p = Notes THEN Corrupt
        ELSE NoFile]

Init ==
    /\ dirs = {MODELS_DIR, OUTPUT_DIR}
    /\ \E c1, c2 \in ServiceContents : fs = Tree(c1, c2, NoFile)
    /\ fs_ops = 0
    /\ requests = <<>>
    /\ tasks = <<>>
    /\ call = NoCall

Step(i) ==
    \/ Start(i)
    \/ ListDir(i)
    \/ Aggregate(i)
    \/ Save(i)
    \/ SaveFails(i)
    \/ Callback(i)

Next ==
    \/ \E r \in RoundIds, d \in DirNames : aggregate_endpoint(r, d, CALLBACK_URL)
    \/ \E i \in 1..Len(tasks) : Start(i)
    \/ \E i \in 1..Len(tasks) : ListDir(i)
    \/ \E i \in 1..Len(tasks) : Aggregate(i)
    \/ \E i \in 1..Len(tasks) : Save(i)
    \/ \E i \in 1..Len(tasks) : SaveFails(i)
    \/ \E i \in 1..Len(tasks) : Callback(i)
    \/ \E p \in Paths : RemoveFile(p)
    \/ \E d \in DirNames : RemoveDir(d)

Spec == Init /\ [][Next]_vars

\* The thread pool runs the tasks it was given: while some task has a step
\* to take, a step of some task is taken.
TaskStep ==
    \E i \in 1..Len(tasks) : Step(i)

Fairness ==
    WF_vars(TaskStep)

LiveContents == {<<Model(W1), Model(WWide)>>, <<Model(W1), Model(WLong)>>}

LiveInit ==
    /\ dirs = {MODELS_DIR, OUTPUT_DIR}
    /\ \E c \in LiveContents : fs = Tree(c[1], c[2], NoFile)
    /\ fs_ops = 0
    /\ requests = <<>>
    /\ tasks = <<>>
    /\ call = NoCall

LiveSpec == LiveInit /\ [][Next]_vars /\ Fairness

-----------------------------------------------------------------------------
(* aggregate_models called directly with a list of paths *)

PathLists ==
    UNION {Perms(S) : S \in SUBSET {InputPath("m1"), InputPath("m2"), InputPath("m3")}}

AggInit ==
    /\ dirs = {MODELS_DIR, OUTPUT_DIR}
    /\ \E c1, c2, c3 \in AllContents : fs = Tree(c1, c2, c3)
    /\ fs_ops = 0
    /\ requests = <<>>
    /\ tasks = <<>>
    /\ call = NoCall

CallAggregate(model_paths) ==
    LET r == aggregate_models(fs, model_paths) IN
    /\ ~call.called
    /\ call' = [called |-> TRUE, model_paths |-> model_paths, model |-> r.model,
                loaded |-> r.loaded, step |-> r.step]
    /\ UNCHANGED <<dirs, fs, fs_ops, requests, tasks>>

AggNext ==
    \E model_paths \in PathLists : CallAggregate(model_paths)

AggSpec == AggInit /\ [][AggNext]_vars

-----------------------------------------------------------------------------
(* The state of a round (spec section 4.4) *)

Accepted(t) ==
    t.pc = "queued"

Running(t) ==
    t.pc \in {"listdir", "aggregate", "save"}

Completed(t) ==
    t.response_status = "success"

Failed(t) ==
    t.response_status = "error"

Terminal(t) ==
    Completed(t) \/ Failed(t)

TaskIds == 1..Len(tasks)

-----------------------------------------------------------------------------
(* C1 *)

Notified(t) ==
    /\ t.pc = "done"
    /\ Terminal(t)
    /\ Len(t.posts) = 1
    /\ t.posts[1].json.status = t.response_status

\* C1: every accepted round eventually is in a terminal state (Completed or
\* Failed) with one callback attempt made that carries that state, whatever
\* step of the pipeline failed.
C1_EveryRoundEndsNotified ==
    \A i \in 1..MaxRequests :
        (i <= Len(tasks)) ~> (i <= Len(tasks) /\ Notified(tasks[i]))

\* A round is notified of the failure of a listing whose directory was
\* removed after the request was accepted.
C1_Witness ==
    \E i \in TaskIds :
        /\ Notified(tasks[i])
        /\ Failed(tasks[i])
        /\ tasks[i].posts[1].json.message = MSG_NO_DIR

-----------------------------------------------------------------------------
(* What the claims speak of *)

\* The weight lists agree in length and in the shape at every index.
SameShapes(all) ==
    \A k \in 1..Len(all) : Shapes(all[k]) = Shapes(all[1])

RECURSIVE Total(_, _, _, _)
Total(all, i, j, k) ==
    IF k = 0 THEN Num(0) ELSE Add(Total(all, i, j, k - 1), all[k][i][j])

\* weights is, index by index and element by element, the sum of the lists
\* of all divided by their number.
IsMeanOf(weights, all) ==
    /\ Shapes(weights) = Shapes(all[1])
    /\ \A i \in 1..Len(weights) : \A j \in 1..Len(weights[i]) :
         SameNumber(<<weights[i][j][1] * Len(all), weights[i][j][2]>>,
                    Total(all, i, j, Len(all)))

\* The weights of the files of paths that exist, in the order of paths.
WeightsFound(fsys, paths) ==
    LET found == SelectSeq(paths, LAMBDA p : Exists(fsys, p)) IN
    [k \in 1..Len(found) |-> fsys[found[k]].weights]

KindsAt(fsys, paths) ==
    {fsys[paths[k]].kind : k \in 1..Len(paths)}

OutputPath(t) ==
    <<"aggregated_models", [stem |-> <<"global_model", t.round_id>>, ext |-> "h5"]>>

-----------------------------------------------------------------------------
(* C2 *)

\* C2: when the loading loop of aggregate_models ends with N >= 1 weight
\* lists that agree in length and shapes, the call returns a model whose
\* weights are their elementwise mean (their sum divided by N).
C2_ReturnsMeanOfLoaded ==
    (call.called /\ call.loaded # <<>> /\ SameShapes(call.loaded))
        => (call.model.kind = "model" /\ IsMeanOf(call.model.weights, call.loaded))

\* Whenever aggregate_models does return a model over lists that agree, the
\* model holds their mean.
C2_ReturnedModelIsMean ==
    (call.called /\ call.model.kind = "model" /\ SameShapes(call.loaded))
        => IsMeanOf(call.model.weights, call.loaded)

\* The files [1], [2], [3] were averaged to [2].
C2_OneTwoThree ==
    /\ call.called
    /\ call.loaded = <<W1, W2, W3>>
    /\ call.model.kind = "model"
    /\ Len(call.model.weights) = 1
    /\ SameNumber(call.model.weights[1][1], Num(2))

-----------------------------------------------------------------------------
(* C3 *)

\* C3: a round whose loaded weight lists disagree in length or in a shape
\* gets no model from aggregate_models, saves nothing and does not complete.
C3_MismatchAborts ==
    \A i \in TaskIds :
        (tasks[i].loaded # <<>> /\ ~SameShapes(tasks[i].loaded))
            => /\ tasks[i].aggregated_model = None
               /\ ~tasks[i].saved
               /\ ~Completed(tasks[i])

-----------------------------------------------------------------------------
(* C4 *)

\* C4: a finished round over an untouched directory that listed a loadable
\* file and a corrupt one is Completed and its callback says "success".
C4_CorruptFilesSkipped ==
    \A i \in TaskIds :
        LET t == tasks[i] IN
        ( /\ t.pc = "done"
          /\ fs_ops = 0
          /\ t.models_dir = MODELS_DIR
          /\ {"model", "corrupt"} \subseteq KindsAt(fs, t.model_paths)
          /\ SameShapes(WeightsFound(fs, SelectSeq(t.model_paths,
                                       LAMBDA p : fs[p].kind = "model"))) )
            => (Completed(t) /\ t.posts[1].json.status = "success")

-----------------------------------------------------------------------------
(* C5 *)

\* C5: aggregate_models called with paths of which some do not exist and the
\* others load and agree returns the mean over the files that exist.
C5_MissingPathsSkipped ==
    ( /\ call.called
      /\ KindsAt(fs, call.model_paths) = {"absent", "model"}
      /\ SameShapes(WeightsFound(fs, call.model_paths)) )
        => /\ call.model.kind = "model"
           /\ IsMeanOf(call.model.weights, WeightsFound(fs, call.model_paths))

-----------------------------------------------------------------------------
(* C6 *)

\* C6: a finished round over an untouched directory that listed no loadable
\* .h5 file is Failed with the no-models-found message, saved nothing and
\* made its callback attempt with status "error".
C6_NoModelsFound ==
    \A i \in TaskIds :
        LET t == tasks[i] IN
        ( /\ t.pc = "done"
          /\ fs_ops = 0
          /\ t.models_dir = MODELS_DIR
          /\ "model" \notin KindsAt(fs, t.model_paths) )
            => /\ Failed(t)
               /\ ~t.saved
               /\ Len(t.posts) = 1
               /\ t.posts[1].json.status = "error"
               /\ t.posts[1].json.message = MSG_NO_FILES

-----------------------------------------------------------------------------
(* C7 *)

PostsMade(t, u) ==
    Len(u.posts) > Len(t.posts)

-----------------------------------------------------------------------------
(* C8 *)

Handled ==
    Len(requests') = Len(requests) + 1

\* C8: a request naming something that is not an existing directory is
\* answered 404 and creates no task and changes no file; a request naming
\* an existing directory is answered 202 with its roundId and enqueues one
\* task for it.  Every task, and so every callback, belongs to a request
\* answered 202.
C8_NotFoundCreatesNoRound ==
    [][/\ Handled =>
            LET a == requests'[Len(requests')] IN
            IF a.models_directory \in dirs
            THEN /\ a.code = 202
                 /\ a.body_roundId = a.roundId
                 /\ Len(tasks') = Len(tasks) + 1
                 /\ tasks'[Len(tasks')].req = Len(requests')
                 /\ tasks'[Len(tasks')].round_id = a.roundId
                 /\ tasks'[Len(tasks')].models_dir = a.models_directory
                 /\ tasks'[Len(tasks')].pc = "queued"
                 /\ tasks'[Len(tasks')].posts = <<>>
            ELSE /\ a.code = 404
                 /\ tasks' = tasks
                 /\ fs' = fs
       /\ \A i \in 1..Len(tasks') : requests'[tasks'[i].req].code = 202]_vars

\* A request for the models directory was answered 404 (the directory had
\* been removed) after an earlier one for it had been answered 202.
C8_Witness ==
    \E j, k \in 1..Len(requests) :
        /\ j < k
        /\ requests[j].models_directory = MODELS_DIR
        /\ requests[j].code = 202
        /\ requests[k].models_directory = MODELS_DIR
        /\ requests[k].code = 404
        /\ Len(tasks) = 1

-----------------------------------------------------------------------------
(* C9 *)

AcceptedRequests ==
    {k \in 1..Len(requests) : requests[k].code = 202}

Rank(pc) ==
    CASE pc = "queued" -> 0
      [] pc = "listdir" -> 1
      [] pc = "aggregate" -> 2
      [] pc = "save" -> 3
      [] pc = "callback" -> 4
      [] pc = "done" -> 5

OneTaskPerAccepted ==
    /\ Len(tasks) = Cardinality(AcceptedRequests)
    /\ \A i \in TaskIds :
         /\ tasks[i].req \in AcceptedRequests
         /\ tasks[i].round_id = requests[tasks[i].req].roundId
         /\ tasks[i].models_dir = requests[tasks[i].req].models_directory
         /\ \A j \in TaskIds : tasks[i].req = tasks[j].req => i = j
         /\ Len(tasks[i].posts) <= 1
         /\ tasks[i].pc = "done" =>
               (Len(tasks[i].posts) = 1 /\ tasks[i].posts[1].json.roundId = tasks[i].round_id)

\* C9: there is one task per accepted request, whatever roundId and
\* directory the requests name; every task goes through the pipeline once
\* (its position never goes back), a step of one task changes no other task,
\* and a task that is done has made its own callback attempt.
C9_OneExecutionPerRequest ==
    [][/\ OneTaskPerAccepted'
       /\ \A i \in TaskIds :
            /\ tasks'[i].req = tasks[i].req
            /\ Rank(tasks'[i].pc) >= Rank(tasks[i].pc)
            /\ tasks'[i] # tasks[i] =>
                  \A j \in TaskIds : j # i => tasks'[j] = tasks[j]]_vars

\* Two accepted requests with the same roundId and the same directory are
\* both in the middle of the pipeline.
C9_Witness ==
    /\ Len(tasks) = 2
    /\ tasks[1].round_id = tasks[2].round_id
    /\ tasks[1].models_dir = tasks[2].models_dir
    /\ tasks[1].pc = "aggregate"
    /\ tasks[2].pc = "save"

-----------------------------------------------------------------------------
(* C10 *)

SuccessPayload(t, json) ==
    /\ DOMAIN json = {"roundId", "status", "aggregated_model_path"}
    /\ json.roundId = t.round_id
    /\ json.aggregated_model_path = <<CWD>> \o OutputPath(t)

ErrorPayload(t, json) ==
    /\ DOMAIN json = {"roundId", "status", "message"}
    /\ json.roundId = t.round_id
    /\ json.status = "error"

\* C10: the step that makes a round Completed is the save of a model that
\* aggregate_models returned over at least one loaded artifact, to
\* global_model_<roundId>.h5 of the output directory; a callback with status
\* "success" is sent only by a round already Completed, and carries the
\* roundId and the absolute path of that file and no message; any other
\* callback carries the roundId, status "error" and a message, and no path.
C10_SuccessOnlyAfterSave ==
    [][\A i \in TaskIds :
          /\ (Completed(tasks'[i]) /\ ~Completed(tasks[i]))
               => /\ Len(tasks[i].loaded) >= 1
                  /\ tasks[i].agg_step = "ok"
                  /\ tasks[i].aggregated_model.kind = "model"
                  /\ fs'[OutputPath(tasks[i])] = tasks[i].aggregated_model
                  /\ tasks'[i].posts = <<>>
          /\ PostsMade(tasks[i], tasks'[i])
               => LET json == tasks'[i].posts[Len(tasks'[i].posts)].json IN
                  IF json.status = "success"
                  THEN Completed(tasks[i]) /\ SuccessPayload(tasks[i], json)
                  ELSE Failed(tasks[i]) /\ ErrorPayload(tasks[i], json)]_vars

\* A success callback was sent for a round that averaged two artifacts.
C10_Witness ==
    \E i \in TaskIds :
        /\ Len(tasks[i].posts) = 1
        /\ tasks[i].posts[1].json.status = "success"
        /\ Len(tasks[i].loaded) = 2

-----------------------------------------------------------------------------
(* C11 *)

\* keras load_model on a file that is not an HDF5 model (aggregator.py line
\* 52 and line 74).
MSG_LOAD_FAILED == "Unable to open file (file signature not found)"

\* np.array over weight tensors of different shapes (line 66).
MSG_ARRAY_FAILED == "The requested array has an inhomogeneous shape"

\* Model.set_weights with a list of the wrong length or shapes (line 77).
MSG_SET_WEIGHTS_FAILED == "Weight list of the wrong length or shape"

\* Lines 82-83: the message of the exception that aggregate_models catches
\* and logs at the step where the call ended.
AggregatorError(step) ==
    CASE step = "load" -> MSG_LOAD_FAILED
      [] step = "average" -> MSG_ARRAY_FAILED
      [] step = "template" -> MSG_LOAD_FAILED
      [] step = "set_weights" -> MSG_SET_WEIGHTS_FAILED
      [] OTHER -> ""

AggregatorRaised(t) ==
    t.agg_step \in {"load", "average", "template", "set_weights"}

\* The message of the error that made the round Failed: the error of the
\* listing, the exception raised inside aggregate_models, the error raised
\* for a call that returned None without an exception, or the error of the
\* save.
TriggeringMessages(t) ==
    IF t.agg_step = "" THEN {MSG_NO_DIR, MSG_NO_FILES}
    ELSE IF AggregatorRaised(t) THEN {AggregatorError(t.agg_step)}
    ELSE IF t.agg_step = "ok" THEN {MSG_SAVE_FAILED}
    ELSE {MSG_AGG_FAILED}

\* C11: the message in the error callback of a Failed round is the message
\* of the error that triggered the failure, at every step that can fail
\* (listing, loading, averaging, installing the weights, saving).
C11_MessageIsTriggeringError ==
    \A i \in TaskIds :
        Failed(tasks[i]) =>
            tasks[i].callback_data.message \in TriggeringMessages(tasks[i])

\* What holds of the code: the listing and the save report their own
\* message, every failure inside aggregate_models the generic one.
C11_GenericForAggregator ==
    \A i \in TaskIds :
        Failed(tasks[i]) =>
            /\ tasks[i].agg_step = ""
                 => tasks[i].callback_data.message \in {MSG_NO_DIR, MSG_NO_FILES}
            /\ tasks[i].agg_step = "ok"
                 => tasks[i].callback_data.message = MSG_SAVE_FAILED
            /\ tasks[i].agg_step \notin {"", "ok"}
                 => tasks[i].callback_data.message = MSG_AGG_FAILED

-----------------------------------------------------------------------------
(* C12 *)

\* Line 49 and line 57 are behind the task.
Listed(t) ==
    t.pc \in {"aggregate", "save", "callback", "done"}

Aggregated(t) ==
    t.agg_step # ""

\* Two rounds over the directory of the clients' artifacts, whose contents
\* nothing has changed since the service started.
SameContents(t, u) ==
    /\ t.models_dir = MODELS_DIR
    /\ u.models_dir = MODELS_DIR
    /\ fs_ops = 0

\* C12: two executions over the same directory contents load the same
\* artifacts in the same order, use the same template (the first path) and
\* reach the same outcome of the aggregation, whatever order the listing
\* returned the names in.
C12_LoadOrderOfContentsOnly ==
    \A i, j \in TaskIds :
        (SameContents(tasks[i], tasks[j]) /\ Listed(tasks[i]) /\ Listed(tasks[j]))
            => /\ tasks[i].model_paths = tasks[j].model_paths
               /\ (Aggregated(tasks[i]) /\ Aggregated(tasks[j]))
                    => /\ tasks[i].loaded = tasks[j].loaded
                       /\ tasks[i].agg_step = tasks[j].agg_step
                       /\ tasks[i].aggregated_model = tasks[j].aggregated_model

\* The outcome alone: two executions over the same contents both fail or
\* both return a model.
C12_SameOutcome ==
    \A i, j \in TaskIds :
        (SameContents(tasks[i], tasks[j]) /\ Aggregated(tasks[i]) /\ Aggregated(tasks[j]))
            => tasks[i].agg_step = tasks[j].agg_step

\* What holds of the code: the outcome is a function of the contents and of
\* the order of the listing.
C12_SameListingSameOutcome ==
    \A i, j \in TaskIds :
        (SameContents(tasks[i], tasks[j]) /\ Aggregated(tasks[i]) /\ Aggregated(tasks[j])
           /\ tasks[i].model_paths = tasks[j].model_paths)
            => /\ tasks[i].loaded = tasks[j].loaded
               /\ tasks[i].agg_step = tasks[j].agg_step
               /\ tasks[i].aggregated_model = tasks[j].aggregated_model

-----------------------------------------------------------------------------
(* C13 *)

\* The state of the round of task t.
RoundState(t) ==
    IF Completed(t) THEN "Completed"
    ELSE IF Failed(t) THEN "Failed"
    ELSE IF Running(t) THEN "Running"
    ELSE "Accepted"

\* The moves of the state machine; a state may also stay as it is.
RoundMoves ==
    {<<"Accepted", "Running">>, <<"Running", "Completed">>, <<"Running", "Failed">>}

\* The state is well defined: a round is Accepted or Running exactly when
\* it is not terminal, it is terminal exactly when its task is at the
\* callback or behind it, and the status of its payload is its state.
RoundStateDefined(t) ==
    /\ (Accepted(t) \/ Running(t)) <=> ~Terminal(t)
    /\ ~(Accepted(t) /\ Running(t))
    /\ ~(Completed(t) /\ Failed(t))
    /\ Terminal(t) <=> t.pc \in {"callback", "done"}
    /\ Completed(t) => (t.saved /\ t.callback_data.status = "success")
    /\ Failed(t) => (~t.saved /\ t.callback_data.status = "error")
    /\ ~Terminal(t) => (~t.saved /\ t.callback_data = <<>> /\ t.posts = <<>>)

\* C13: a round's state only moves Accepted -> Running -> Completed or
\* Accepted -> Running -> Failed; it is never Completed and Failed both, a
\* terminal state is never left, a task writes a file only while its round
\* is Running, a round exists only for an accepted request and starts
\* Accepted, and the callback attempt is made only in a terminal state.
C13_RoundStateMachine ==
    [][/\ \A i \in 1..Len(tasks') :
            /\ RoundStateDefined(tasks'[i])
            /\ tasks'[i].req \in AcceptedRequests'
            /\ i > Len(tasks) => RoundState(tasks'[i]) = "Accepted"
       /\ \A i \in TaskIds :
            /\ \/ RoundState(tasks'[i]) = RoundState(tasks[i])
               \/ <<RoundState(tasks[i]), RoundState(tasks'[i])>> \in RoundMoves
            /\ (tasks'[i] # tasks[i] /\ fs' # fs) => Running(tasks[i])
            /\ PostsMade(tasks[i], tasks'[i]) => Terminal(tasks[i])]_vars

\* One round went Accepted -> Running -> Completed, another ended Failed
\* in its save, and the callback of both could not be delivered.
C13_Witness ==
    \E i, j \in TaskIds :
        /\ Completed(tasks[i]) /\ tasks[i].pc = "done"
        /\ Failed(tasks[j]) /\ tasks[j].pc = "done"
        /\ tasks[j].agg_step = "ok"
        /\ PostRaises(tasks[i].post_result)
        /\ PostRaises(tasks[j].post_result)

-----------------------------------------------------------------------------
(* C14 *)

\* The paths that task t handed to aggregate_models and that lie in the
\* output directory.
InputsFromOutputDir(t) ==
    {k \in 1..Len(t.model_paths) : t.model_paths[k][1] = OUTPUT_DIR}

\* C14: rounds use the output directory for writing only: the artifacts a
\* round has loaded and averages are never files of the output directory
\* (global models saved by a round), whatever models_directory was named.
C14_OutputDirWriteOnly ==
    \A i \in TaskIds :
        Len(tasks[i].loaded) >= 1 => InputsFromOutputDir(tasks[i]) = {}

\* What holds of the code: a round reads the directory its request named
\* and no other, so only a request that names the output directory reads it.
C14_ReadsNamedDirOnly ==
    \A i \in TaskIds :
        \A k \in 1..Len(tasks[i].model_paths) :
            tasks[i].model_paths[k][1] = tasks[i].models_dir

-----------------------------------------------------------------------------
(* C15 *)

\* Line 63: the output file of the rounds with roundId r.
OutputFile(r) ==
    Join(OUTPUT_DIR, OutputName(r))

\* The step makes the round of task i Completed: its save succeeded.
Saves(i) ==
    Completed(tasks'[i]) /\ ~Completed(tasks[i])

\* The tasks of the rounds with roundId r.
RoundsOf(r) ==
    {i \in TaskIds : tasks[i].round_id = r}

\* C15: under any interleaving, a task writes no file but the output file
\* of its own roundId, and different roundIds have different output files;
\* a round that saves leaves its own model in that file, and once a round
\* with roundId r has saved, the file changes only when a round with the
\* same roundId saves, so that when all of them have finished it holds the
\* model of the round that saved last; every Completed round reports the
\* absolute path of that file.
C15_LastWriterWins ==
    [][/\ \A r1, r2 \in RoundIds : r1 # r2 => OutputFile(r1) # OutputFile(r2)
       /\ \A i \in TaskIds :
            /\ tasks'[i] # tasks[i] =>
                   \A p \in Paths : fs'[p] # fs[p] => p = OutputFile(tasks[i].round_id)
            /\ Saves(i) =>
                   fs'[OutputFile(tasks[i].round_id)] = tasks[i].aggregated_model
            /\ Completed(tasks'[i]) =>
                   tasks'[i].callback_data.aggregated_model_path
                       = Abspath(OutputFile(tasks[i].round_id))
       /\ \A r \in RoundIds :
            ((\E i \in RoundsOf(r) : Completed(tasks[i]))
               /\ ~(\E i \in RoundsOf(r) : Saves(i)))
                => fs'[OutputFile(r)] = fs[OutputFile(r)]]_vars

\* What holds of the code: the same, for the steps that are not the failed
\* save of a round with the same roundId.
C15_LastWriterWinsButFailedSave ==
    [][/\ \A r1, r2 \in RoundIds : r1 # r2 => OutputFile(r1) # OutputFile(r2)
       /\ \A i \in TaskIds :
            /\ tasks'[i] # tasks[i] =>
                   \A p \in Paths : fs'[p] # fs[p] => p = OutputFile(tasks[i].round_id)
            /\ Saves(i) =>
                   fs'[OutputFile(tasks[i].round_id)] = tasks[i].aggregated_model
            /\ Completed(tasks'[i]) =>
                   tasks'[i].callback_data.aggregated_model_path
                       = Abspath(OutputFile(tasks[i].round_id))
       /\ \A r \in RoundIds :
            ((\E i \in RoundsOf(r) : Completed(tasks[i]))
               /\ ~(\E i \in RoundsOf(r) : Saves(i))
               /\ ~(\E i \in RoundsOf(r) : tasks[i].pc = "save" /\ Failed(tasks'[i])))
                => fs'[OutputFile(r)] = fs[OutputFile(r)]]_vars

-----------------------------------------------------------------------------
(* C16 *)

\* The files of the output directory.
OutputDir(fsys) ==
    [p \in {q \in Paths : q[1] = OUTPUT_DIR} |-> fsys[p]]

\* C16: a round that ends Failed leaves the output directory as it was: no
\* step of a task whose round is not Completed by it creates or changes a
\* file of the output directory.
C16_FailedRoundLeavesOutput ==
    [][\A i \in TaskIds :
          (tasks'[i] # tasks[i] /\ ~Completed(tasks'[i]))
              => OutputDir(fs') = OutputDir(fs)]_vars

\* The second half alone: the output file of a Completed round is not
\* changed by a round that ends Failed.
C16_EarlierOutputKept ==
    [][\A i \in TaskIds :
          (tasks'[i] # tasks[i] /\ ~Completed(tasks'[i])
             /\ \E j \in TaskIds : /\ Completed(tasks[j])
                                   /\ tasks[j].round_id = tasks[i].round_id)
              => OutputDir(fs') = OutputDir(fs)]_vars

\* What holds of the code: a round that fails before its save leaves the
\* output directory as it was, and a round that fails in its save changes
\* no file but the output file of its roundId.
C16_FailedBeforeSaveLeavesOutput ==
    [][\A i \in TaskIds :
          (tasks'[i] # tasks[i] /\ ~Completed(tasks'[i]))
              => \/ OutputDir(fs') = OutputDir(fs)
                 \/ /\ tasks[i].pc = "save"
                    /\ \A p \in Paths :
                          fs'[p] # fs[p] => p = OutputFile(tasks[i].round_id)]_vars

====
